---- MODULE Spec2Model ----
(***************************************************************************)
(* A model of the kernel channel engine of jupyter-js-services:            *)
(*   - class Kernel        (src/src/kernel.ts 326-991)                     *)
(*   - class KernelSocket  (src/src/kernel.ts 997-1187)                    *)
(*   - class ManagedSocket (src/src/mockcontents.ts 207-411)               *)
(*                                                                         *)
(* One Kernel is attached to one KernelSocket.  The members that           *)
(* KernelSocket reads but does not declare (this.status,                   *)
(* this._updateStatus) are the members of the Kernel that owns the socket, *)
(* and the socket's msgReceived signal is connected to                     *)
(* Kernel._onKernelMessage; that attachment is not in the source and       *)
(* follows the design document (sections 2 and 4.C).                       *)
(* KernelFutureHandler (./kernelfuture) is not part of the source tree;    *)
(* its behaviour follows sections 3 and 4.D of the design document.        *)
(*                                                                         *)
(* Every handler runs to completion (section 5: single-threaded            *)
(* cooperative), so one action is one whole handler.  User callbacks do    *)
(* not call back into the engine.                                          *)
(***************************************************************************)
EXTENDS Integers, Sequences, FiniteSets, TLC

\* ------------------------------------------------------------------ bounds
\* Number of message ids the client allocates (msg 1 is the constructor's
\* kernel_info_request).
MaxMsgs == 2
\* Number of message ids when the requests are made with execute().
MaxExec == 3
\* Number of DELETE requests that may be in flight at once.
MaxRest == 2
\* Number of payloads passed to ManagedSocket.send().
MaxPayloads == 3
\* comm messages that wait for one comm_open to resolve
MaxQueued == 2
\* PATCH requests, and DELETE requests, of one session in flight
MaxPatches == 2
MaxDeletes == 2
\* calls of the session's methods
MaxSessionCalls == 5
\* Kernel objects made by startNewKernel and connectToKernel
MaxKernels == 3
\* REST lookups of startNewKernel and connectToKernel in flight
MaxLookups == 2
\* DefaultSession objects made for one SessionManager
MaxSessions == 3
\* requests of the SessionManager and of its sessions in flight
MaxRequests == 2
\* calls of the methods of the SessionManager and of its sessions
MaxManagerCalls == 4

\* ------------------------------------------------------- program constants
reconnectLimit == 7
managedReconnectLimit == 7

MaxIds == IF MaxExec > MaxMsgs THEN MaxExec ELSE MaxMsgs
MsgIds == 1..MaxIds
Parents == 0..MaxIds          \* 0: empty parent_header
CommIds == {"c1"}
NoComm == "none"

KernelStatus ==
  {"Unknown", "Starting", "Idle", "Busy", "Restarting", "Reconnecting", "Dead"}

\* execution_state values a server sends in an iopub status message
ExecStates == {"starting", "idle", "busy", "restarting", "dead"}

\* ---------------------------------------------------------------- messages
\* A received, valid kernel message: channel, header.msg_type,
\* content.execution_state (status only) or "module" for a comm_open whose
\* content.target_module is set, content.comm_id (comm_* only) and
\* parent_header.msg_id (0 when the parent header is empty).
Msg(ch, ty, st, c, p) ==
  [channel |-> ch, msg_type |-> ty, state |-> st, comm |-> c, parent |-> p]

Msgs ==
  { Msg("shell", "reply", "", NoComm, p) : p \in Parents }
  \cup { Msg("iopub", "status", st, NoComm, p) : st \in ExecStates, p \in Parents }
  \cup { Msg("iopub", "stream", "", NoComm, p) : p \in Parents }
  \cup { Msg("stdin", "input_request", "", NoComm, p) : p \in Parents }
  \cup { Msg("iopub", ty, "", c, 0) :
           ty \in {"comm_open", "comm_msg", "comm_close"}, c \in CommIds }
  \cup { Msg("iopub", "comm_open", "module", c, 0) : c \in CommIds }

\* The comm messages at which the callback of the user throws: a comm_open
\* whose registered target throws, and a comm_msg whose onMsg handler throws.
ThrowingMsgs ==
  { Msg("iopub", ty, "throws", c, 0) :
      ty \in {"comm_open", "comm_msg"}, c \in CommIds }

\* msg.header.msgType as read by KernelSocket._onWSMessage: the header of a
\* kernel message carries msg_type (createKernelMessage, IKernelMessageHeader)
\* and no msgType field, so the read yields undefined.
headerMsgType(m) == "undefined"

\* ------------------------------------------------------------------ state
VARIABLES
  status,        \* Kernel._status
  disposed,      \* Kernel._futures === null
  futures,       \* keys of Kernel._futures
  fut,           \* the KernelFutureHandler object made for each msg id
  nextId,        \* number of msg ids allocated so far
  comms,         \* keys of Kernel._comms
  commPromises,  \* state of the entry of each comm id in Kernel._commPromises
  commObjs,      \* per comm id, the Comm object last made with it: "none",
                 \* open and made by connectToComm ("local") or for a
                 \* comm_open ("remote"), or "disposed"
  loading,       \* per comm id: requirejs is loading the target of a comm_open
  thens,         \* per comm id: the callbacks that comm_msg and comm_close
                 \* registered with then() on the promise of that comm_open
  requirejs,     \* typeof requirejs !== 'undefined'
  targets,       \* TRUE iff a target is registered in Kernel._targetRegistry
  kSignals,      \* connections to the kernel's signals exist
  deletes,       \* DELETE api/kernels/{id} requests in flight
  ws,            \* KernelSocket._ws: "null", or the state of the WebSocket
                 \* it refers to: "connecting", "open" or "closed"
  sSignals,      \* connections to the socket's msgReceived signal exist
  isReady,       \* KernelSocket._isReady
  pendingMessages, \* KernelSocket._pendingMessages
  reconnectAttempt, \* KernelSocket._reconnectAttempt
  timer,         \* a setTimeout(_createSocket) is pending
  wire,          \* payloads handed to WebSocket.send without an exception
  rcv,           \* per msg id: the kinds of answer ("reply", "idle") that
                 \* have reached Kernel._onKernelMessage with it as parent
  last,          \* what the last handler did, and the parent msg id of the
                 \* message it handled (observation only)
  managed,       \* the ManagedSocket object
  session,       \* a DefaultSession object, its requests in flight and the
                 \* session the server keeps for it
  registry,      \* Private.runningKernels of kernel.ts, the KernelSocket and
                 \* Kernel objects made and the REST lookups in flight
  manager        \* a SessionManager object, the DefaultSession objects of
                 \* Private.runningSessions and the requests in flight

kvars == <<status, disposed, futures, fut, nextId, comms, commPromises,
          commObjs, loading, thens, requirejs, targets,
          kSignals,
          deletes, ws, sSignals, isReady, pendingMessages, reconnectAttempt,
          timer, wire, rcv, last>>

vars == <<kvars, managed, session, registry, manager>>

\* A Future object.
NoFuture ==
  [expectReply |-> FALSE, disposeOnDone |-> FALSE,
   replyReceived |-> FALSE, idleReceived |-> FALSE, done |-> FALSE,
   isDisposed |-> FALSE, cb |-> <<>>]

newFuture(expectReply, disposeOnDone) ==
  [NoFuture EXCEPT !.expectReply = expectReply,
                   !.disposeOnDone = disposeOnDone]

\* The program state as one record, threaded through the statements of a
\* handler; ev collects what the handler made observable, threw whether it
\* ended in an exception, micro the promise callbacks it has scheduled, which
\* run when it returns.
S ==
  [status |-> status, disposed |-> disposed, futures |-> futures, fut |-> fut,
   nextId |-> nextId, comms |-> comms, commPromises |-> commPromises,
   commObjs |-> commObjs, loading |-> loading, thens |-> thens,
   requirejs |-> requirejs, targets |-> targets,
   kSignals |-> kSignals, deletes |-> deletes, ws |-> ws,
   sSignals |-> sSignals, isReady |-> isReady,
   pendingMessages |-> pendingMessages,
   reconnectAttempt |-> reconnectAttempt, timer |-> timer, wire |-> wire,
   rcv |-> rcv,
   ev |-> <<>>, threw |-> FALSE, micro |-> <<>>]

CommitAs(s, op, parent) ==
  /\ status' = s.status
  /\ disposed' = s.disposed
  /\ futures' = s.futures
  /\ fut' = s.fut
  /\ nextId' = s.nextId
  /\ comms' = s.comms
  /\ commPromises' = s.commPromises
  /\ commObjs' = s.commObjs
  /\ loading' = s.loading
  /\ thens' = s.thens
  /\ requirejs' = s.requirejs
  /\ targets' = s.targets
  /\ kSignals' = s.kSignals
  /\ deletes' = s.deletes
  /\ ws' = s.ws
  /\ sSignals' = s.sSignals
  /\ isReady' = s.isReady
  /\ pendingMessages' = s.pendingMessages
  /\ reconnectAttempt' = s.reconnectAttempt
  /\ timer' = s.timer
  /\ wire' = s.wire
  /\ rcv' = s.rcv
  /\ last' = [op |-> op, threw |-> s.threw, ev |-> s.ev, parent |-> parent]
  /\ UNCHANGED <<managed, session, registry, manager>>

Commit(s, op) == CommitAs(s, op, 0)

\* An observable event of the running handler.
Note(s, e) == [s EXCEPT !.ev = Append(@, e)]

\* signal.emit(...): reaches a listener only while connections exist.
Emit(s, e) == IF s.kSignals THEN Note(s, e) ELSE s

\* ------------------------------------------------- KernelFutureHandler
\* future.dispose(): the handlers are dropped; the dispose callback given
\* by sendShellMessage runs once.
futureDispose(f) == [f EXCEPT !.isDisposed = TRUE]

\* A call of the onReply or onDone handler, recorded in cb (the history keeps
\* the first two calls of a handler: none, one, more than one).
futureCall(f, name) ==
  IF Cardinality({i \in DOMAIN f.cb : f.cb[i] = name}) < 2
  THEN [f EXCEPT !.cb = Append(@, name)] ELSE f

\* The termination of a Future: onDone fires once, then the Future is
\* disposed if disposeOnDone.
futureDone(f) ==
  IF f.done THEN f
  ELSE LET g == futureCall([f EXCEPT !.done = TRUE], "done")
       IN IF g.disposeOnDone THEN futureDispose(g) ELSE g

futureTerminal(f) == (~f.expectReply \/ f.replyReceived) /\ f.idleReceived

\* future.handleMsg(msg): per channel.
futureHandleMsg(f, m) ==
  IF f.isDisposed THEN f
  ELSE IF m.channel = "shell" THEN
    LET g == [(IF f.expectReply THEN futureCall(f, "reply") ELSE f)
                EXCEPT !.replyReceived = TRUE]
    IN IF futureTerminal(g) THEN futureDone(g) ELSE g
  ELSE IF m.channel = "iopub" /\ m.msg_type = "status" /\ m.state = "idle" THEN
    LET g == [f EXCEPT !.idleReceived = TRUE]
    IN IF futureTerminal(g) THEN futureDone(g) ELSE g
  ELSE f

\* ------------------------------------------------------------ KernelSocket
\* KernelSocket.dispose()
socketDispose(s) ==
  IF s.ws = "null" THEN s
  ELSE [s EXCEPT !.ws = "null", !.sSignals = FALSE]

\* KernelSocket._sendPending(), where the underlying send succeeds for the
\* first k queued messages and throws for the next one (k = Len: no throw).
sendPending(s, k) ==
  [s EXCEPT !.wire = @ \o SubSeq(s.pendingMessages, 1, k),
            !.pendingMessages = SubSeq(@, k + 1, Len(@)),
            !.threw = k < Len(s.pendingMessages)]

\* KernelSocket.send(msg)
socketSend(s, id) ==
  IF ~s.isReady THEN [s EXCEPT !.pendingMessages = Append(@, id)]
  ELSE IF s.ws = "open" THEN [s EXCEPT !.wire = Append(@, id)]
  ELSE [s EXCEPT !.threw = TRUE]

\* ------------------------------------------------------------------ Kernel
\* (a dispose callback that leaves the registry as it is)
futuresDeleteNothing(s, id) == s

\* The dispose callback of a Future (sendShellMessage): _futures.delete(id)
futuresDelete(s, id) == [s EXCEPT !.futures = @ \ {id}]

\* _futures.forEach(future => future.dispose())
disposeFutures(s) ==
  [s EXCEPT !.fut = [i \in MsgIds |->
                       IF i \in s.futures THEN futureDispose(s.fut[i])
                       ELSE s.fut[i]],
            !.futures = {}]

\* _comms.forEach(comm => comm.dispose())
disposeComms(s) ==
  [s EXCEPT !.commObjs = [x \in CommIds |->
                            IF x \in s.comms THEN "disposed" ELSE s.commObjs[x]]]

\* (dispose() that leaves the kernel's signal connections in place)
kernelDisposeKeepSignals(s) ==
  IF s.disposed THEN s
  ELSE LET a == socketDispose([s EXCEPT !.status = "Dead"])
           b == disposeFutures(a)
           c == [disposeComms(b) EXCEPT
                          !.comms = {},
                          !.commPromises = [x \in CommIds |-> "none"],
                          !.disposed = TRUE, !.targets = FALSE]
       IN Note(c, "dispose")

\* Kernel.dispose()
kernelDispose(s) ==
  IF s.disposed THEN s
  ELSE LET a == socketDispose([s EXCEPT !.status = "Dead"])
           b == disposeFutures(a)
           c == [disposeComms(b) EXCEPT
                          !.comms = {},
                          !.commPromises = [x \in CommIds |-> "none"],
                          !.disposed = TRUE, !.targets = FALSE]
       IN [Note(c, "dispose") EXCEPT !.kSignals = FALSE]

statusOf(state) ==
  CASE state = "starting" -> "Starting"
    [] state = "idle" -> "Idle"
    [] state = "busy" -> "Busy"
    [] state = "restarting" -> "Restarting"
    [] state = "reconnecting" -> "Reconnecting"
    [] state = "dead" -> "Dead"
    [] OTHER -> "invalid"

\* Kernel._updateStatus(state)
updateStatus(s, state) ==
  LET st == statusOf(state) IN
  IF st = "invalid" \/ st = s.status THEN s
  ELSE LET a == Emit([s EXCEPT !.status = st], "statusChanged")
       IN IF st = "Dead" THEN kernelDispose(a) ELSE a

\* (_clearState() that leaves the Comms and their tables as they are)
clearStateFuturesOnly(s) ==
  IF s.disposed THEN [s EXCEPT !.threw = TRUE] ELSE disposeFutures(s)

\* Kernel._clearState()
clearState(s) ==
  IF s.disposed THEN [s EXCEPT !.threw = TRUE]
  ELSE [disposeComms(disposeFutures(s)) EXCEPT
          !.comms = {}, !.commPromises = [x \in CommIds |-> "none"]]

\* (sendShellMessage without the test for a dead kernel)
sendShellMessageUnchecked(s, expectReply, disposeOnDone) ==
  LET id == s.nextId + 1
      a == socketSend([s EXCEPT !.nextId = id], id)
  IN IF a.threw THEN a
     ELSE [a EXCEPT !.fut[id] = newFuture(expectReply, disposeOnDone),
                    !.futures = @ \cup {id}]

\* Kernel.sendShellMessage(msg, expectReply, disposeOnDone)
sendShellMessage(s, expectReply, disposeOnDone) ==
  IF s.status = "Dead" THEN [s EXCEPT !.threw = TRUE]
  ELSE LET id == s.nextId + 1
           a == socketSend([s EXCEPT !.nextId = id], id)
       IN IF a.threw THEN a
          ELSE [a EXCEPT !.fut[id] = newFuture(expectReply, disposeOnDone),
                         !.futures = @ \cup {id}]

\* utils.loadObject(name, moduleName, registry): how the promise it returns
\* stands when the call returns. A module name sends the lookup to requirejs
\* whatever the registry holds.
loadObject(s, m) ==
  IF m.state = "module"
  THEN IF s.requirejs THEN "pending" ELSE "rejected"
  ELSE IF s.targets THEN "resolved" ELSE "rejected"

\* Kernel._handleCommOpen(msg), up to its return: the callback of a promise
\* that loadObject resolved runs when the handler of the event has returned.
handleCommOpen(s, m) ==
  LET p == loadObject(s, m) IN
  IF p = "rejected" THEN [s EXCEPT !.commPromises[m.comm] = "rejected"]
  ELSE IF p = "resolved"
  THEN [s EXCEPT !.commPromises[m.comm] = "pending", !.micro = <<"open">>]
  ELSE [s EXCEPT !.commPromises[m.comm] = "pending",
                 !.loading[m.comm] = TRUE, !.thens[m.comm] = <<>>]

\* The name under which the n-th callback waiting on a promise is recorded.
Tags == <<"msg1", "msg2", "msg3", "msg4">>

tagOf(n) == IF n \in DOMAIN Tags THEN Tags[n] ELSE "msgN"

\* Kernel._handleCommMsg(msg): without a promise for the comm id, onMsg runs
\* in the handler itself and what it throws leaves the handler.
handleCommMsg(s, m) ==
  IF s.commPromises[m.comm] = "pending"
  THEN [s EXCEPT !.thens[m.comm] = Append(@, tagOf(Len(@) + 1))]
  ELSE IF s.commPromises[m.comm] = "rejected" THEN s
  ELSE IF m.comm \notin s.comms \/ s.commObjs[m.comm] = "disposed" THEN s
  ELSE [Note(s, "comm") EXCEPT !.threw = (m.state = "throws")]

\* Kernel._handleCommClose(msg), up to its return
handleCommClose(s, m) ==
  IF s.commPromises[m.comm] = "pending"
  THEN [s EXCEPT !.thens[m.comm] = Append(@, "close")]
  ELSE IF s.commPromises[m.comm] = "rejected" THEN s
  ELSE IF m.comm \notin s.comms THEN s
  ELSE [s EXCEPT !.micro = <<"close">>]

\* Kernel._unregisterComm(commId)
unregisterComm(s, c) ==
  [s EXCEPT !.comms = @ \ {c}, !.commPromises[c] = "none"]

\* Comm.dispose() of the Comm made with id c: _id is null when the dispose
\* callback runs, so the callback of connectToComm, which reads comm.commId,
\* unregisters nothing; the callback of _handleCommOpen holds the id itself.
commDispose(s, c) ==
  LET a == [s EXCEPT !.commObjs[c] = "disposed"]
  IN IF s.commObjs[c] = "remote" THEN unregisterComm(a, c) ELSE a

\* The callback of _handleCommOpen, once the target is known
commOpened(s, c, target) ==
  LET a == Note(s, target)
  IN IF a.disposed THEN a
     ELSE [a EXCEPT !.commPromises[c] = "none", !.comms = @ \cup {c},
                    !.commObjs[c] = "remote"]

\* (the catch block of _handleCommOpen without comm.close())
commOpenFailedNoClose(s, c) ==
  [Note(s, "target") EXCEPT !.commPromises[c] = "rejected"]

\* The callback of _handleCommOpen when the target throws: the catch block
\* closes the new Comm, whose dispose callback unregisters the comm id, and
\* throws again, which rejects the promise of the callback. comm.close()
\* throws itself where sendShellMessage throws, and nothing is unregistered.
commOpenFailed(s, c) ==
  LET a == sendShellMessage(Note(s, "target"), FALSE, TRUE)
  IN IF a.threw
     THEN [a EXCEPT !.threw = FALSE,
                    !.commPromises[c] = IF a.disposed THEN @ ELSE "rejected"]
     ELSE Note(unregisterComm([a EXCEPT !.commObjs[c] = "disposed"], c),
               "exception")

\* The callback of _handleCommClose
commClosed(s, c) ==
  IF s.commObjs[c] = "disposed" THEN s
  ELSE commDispose(Note(unregisterComm(s, c), "commClose"), c)

\* The callback of _handleCommMsg that waited on a promise
commMsgLater(s, c, tag) ==
  IF s.commObjs[c] = "disposed" THEN s ELSE Note(Note(s, "comm"), tag)

\* The promise callbacks a handler scheduled
runMicrotasks(s, m) ==
  IF s.micro = <<>> THEN s
  ELSE IF s.micro[1] = "open"
  THEN IF m.state = "throws" THEN commOpenFailed(s, m.comm)
       ELSE commOpened(s, m.comm, "target")
  ELSE commClosed(s, m.comm)

\* Ends the running handler's account of a delivery: the handlers of the
\* Future that handleMsg invoked.
noteCalls(s, f, g, m) ==
  LET a == IF m.channel = "shell" /\ f.expectReply /\ ~f.isDisposed
           THEN Note(s, "onReply") ELSE s
  IN IF g.done /\ ~f.done THEN Note(a, "onDone") ELSE a

\* The delivery to the Future found under parent_header.msg_id:
\* future.handleMsg(msg), which may run the Future's dispose callback.
deliver(s, m) ==
  LET f == s.fut[m.parent]
      g == futureHandleMsg(f, m)
      a == noteCalls(Note([s EXCEPT !.fut[m.parent] = g], "future"), f, g, m)
  IN IF g.isDisposed /\ ~f.isDisposed THEN futuresDelete(a, m.parent) ELSE a

\* (the message is emitted on iopubReceived before the Future sees it)
onKernelMessageEmitFirst(s, m) ==
  LET handled == ~s.disposed /\ m.parent \in s.futures
      a == IF m.channel = "iopub" THEN Emit(s, "iopub") ELSE s
      b == IF handled THEN deliver(a, m) ELSE a
      c == IF m.channel = "iopub" /\ m.msg_type = "status"
           THEN updateStatus(b, m.state) ELSE b
  IN IF ~handled THEN Emit(c, "unhandled") ELSE c

\* (the delivery to the Future does not set the handled flag)
onKernelMessageUnflagged(s, m) ==
  LET a == IF ~s.disposed /\ m.parent \in s.futures THEN deliver(s, m) ELSE s
      b == IF m.channel = "iopub" /\ m.msg_type = "status"
           THEN updateStatus(a, m.state) ELSE a
      c == IF m.channel = "iopub" THEN Emit(b, "iopub") ELSE b
  IN Emit(c, "unhandled")

\* The switch of _onKernelMessage over the type of an iopub message
iopubHandlers(a, m) ==
  IF m.channel # "iopub" THEN a
  ELSE IF m.msg_type = "status" THEN updateStatus(a, m.state)
  ELSE IF a.disposed /\ m.comm # NoComm THEN [a EXCEPT !.threw = TRUE]
  ELSE IF m.msg_type = "comm_open" THEN handleCommOpen(a, m)
  ELSE IF m.msg_type = "comm_msg" THEN handleCommMsg(a, m)
  ELSE IF m.msg_type = "comm_close" THEN handleCommClose(a, m)
  ELSE a

\* The emissions that end _onKernelMessage
emitMessage(b, m, handled) ==
  LET c == IF m.channel = "iopub" /\ ~b.threw THEN Emit(b, "iopub") ELSE b
  IN IF ~handled /\ ~c.threw THEN Emit(c, "unhandled") ELSE c

\* Kernel._onKernelMessage(msg)
onKernelMessage(s, m) ==
  LET handled == ~s.disposed /\ m.parent \in s.futures
  IN emitMessage(iopubHandlers(IF handled THEN deliver(s, m) ELSE s, m),
                 m, handled)

\* Kernel.sendInputReply(contents)
sendInputReply(s) ==
  IF s.status = "Dead" THEN [s EXCEPT !.threw = TRUE]
  ELSE socketSend([s EXCEPT !.nextId = @ + 1], s.nextId + 1)

\* ---------------------------------------------------------- ManagedSocket
\* The fields of a ManagedSocket after its constructor. ws is "null" or the
\* state of the WebSocket that _ws refers to: "connecting", "open", "failed"
\* (its error event has fired, its close event has not) or "closed". sent
\* counts the calls of send(): the payload of the n-th call is n. wire holds
\* the payloads the WebSocket accepted. old tells of the WebSocket that
\* _close() let go last: "none", or the handlers it was left with ("dummy":
\* _dummyCallback, "bound": those of _createSocket).
NewManagedSocket ==
  [status |-> "closed", ws |-> "null", pendingMessages |-> <<>>,
   reconnectAttempt |-> 0, timer |-> FALSE, timeout |-> 0,
   isDisposed |-> FALSE, old |-> "none",
   delegate |-> "pending", sent |-> 0, wire |-> <<>>,
   op |-> "new", threw |-> FALSE]

\* What WebSocket.send can do in each state of the WebSocket.
Outcomes(w) ==
  IF w = "open" THEN {"sent", "throws"}
  ELSE IF w = "connecting" THEN {"throws"}
  ELSE {"dropped", "throws"}

\* this._ws.send(msg)
wsSend(x, p, outcome) ==
  IF outcome = "sent" THEN [x EXCEPT !.wire = Append(@, p)]
  ELSE IF outcome = "throws" THEN [x EXCEPT !.threw = TRUE]
  ELSE x

\* (_close() that leaves the event handlers on the WebSocket)
managedCloseKeepHandlers(x) ==
  IF x.ws = "null" THEN x ELSE [x EXCEPT !.ws = "null", !.old = "bound"]

\* ManagedSocket._close()
managedClose(x) ==
  IF x.ws = "null" THEN x ELSE [x EXCEPT !.ws = "null", !.old = "dummy"]

\* ManagedSocket._setStatus(status)
managedSetStatus(x, st) == IF st = x.status THEN x ELSE [x EXCEPT !.status = st]

\* ManagedSocket._createSocket()
managedCreateSocket(x) ==
  [managedSetStatus(managedClose(x), "connecting") EXCEPT !.ws = "connecting"]

\* ManagedSocket.connect()
managedConnect(x) ==
  managedCreateSocket([x EXCEPT !.reconnectAttempt = 0, !.delegate = "pending"])

\* ManagedSocket.send(msg)
managedSend(x, outcome) ==
  LET p == x.sent + 1
      y == [x EXCEPT !.sent = p]
  IN IF y.ws = "null" \/ y.status # "open"
     THEN [y EXCEPT !.pendingMessages = Append(@, p)]
     ELSE wsSend(y, p, outcome)

\* ManagedSocket.close()
managedCloseSocket(x) ==
  managedSetStatus([managedClose(x) EXCEPT !.timer = FALSE, !.timeout = 0], "closed")

\* ManagedSocket.dispose()
managedDispose(x) ==
  IF x.isDisposed THEN x
  ELSE [managedClose([x EXCEPT !.isDisposed = TRUE]) EXCEPT !.timer = FALSE, !.timeout = 0]

settle(d, outcome) == IF d = "pending" THEN outcome ELSE d

\* (a flush that shifts the payload off the queue before it is sent)
managedOnWSOpenShiftFirst(x, k) ==
  IF x.ws = "null" THEN x
  ELSE [managedSetStatus([x EXCEPT !.reconnectAttempt = 0], "open")
          EXCEPT !.delegate = settle(@, "resolved"),
                 !.wire = @ \o SubSeq(x.pendingMessages, 1, k),
                 !.pendingMessages = SubSeq(@, k + 2, Len(@)),
                 !.threw = k < Len(x.pendingMessages)]

\* ManagedSocket._onWSOpen(evt); the first k underlying sends of the flush
\* succeed and the next one, if there is one, throws.
managedOnWSOpen(x, k) ==
  IF x.ws = "null" THEN x
  ELSE LET y == [managedSetStatus([x EXCEPT !.reconnectAttempt = 0], "open")
                   EXCEPT !.delegate = settle(@, "resolved")]
       IN [y EXCEPT !.wire = @ \o SubSeq(y.pendingMessages, 1, k),
                    !.pendingMessages = SubSeq(@, k + 1, Len(@)),
                    !.threw = k < Len(y.pendingMessages)]

\* ManagedSocket._onWSClose(evt), for a close or an error event
managedOnWSClose(x) ==
  IF x.status = "closed" THEN x
  ELSE IF x.reconnectAttempt < managedReconnectLimit
  THEN [x EXCEPT !.timer = TRUE, !.timeout = 2 ^ x.reconnectAttempt,
                 !.reconnectAttempt = @ + 1]
  ELSE [managedCloseSocket(x) EXCEPT !.delegate = settle(@, "rejected")]

\* An event of the WebSocket that _close() let go: its handler is
\* _dummyCallback, or else _onWSClose.
managedLateEvent(x) == IF x.old = "dummy" THEN x ELSE managedOnWSClose(x)

Enter == [managed EXCEPT !.threw = FALSE]

Leave(x, op) == managed' = [x EXCEPT !.op = op]

ManagedConnect ==
  /\ Leave(managedConnect(Enter), "connect")
  /\ UNCHANGED <<kvars, session, registry, manager>>

ManagedSend ==
  /\ managed.sent < MaxPayloads
  /\ \E outcome \in Outcomes(managed.ws) : Leave(managedSend(Enter, outcome), "send")
  /\ UNCHANGED <<kvars, session, registry, manager>>

ManagedClose ==
  /\ Leave(managedCloseSocket(Enter), "close")
  /\ UNCHANGED <<kvars, session, registry, manager>>

ManagedDispose ==
  /\ Leave(managedDispose(Enter), "dispose")
  /\ UNCHANGED <<kvars, session, registry, manager>>

ManagedOnWSOpen ==
  /\ managed.ws = "connecting"
  /\ \E k \in 0..Len(managed.pendingMessages) :
       Leave(managedOnWSOpen([Enter EXCEPT !.ws = "open"], k), "onopen")
  /\ UNCHANGED <<kvars, session, registry, manager>>

\* The WebSocket fires its error event, its close event, or one after the
\* other; both run _onWSClose.
ManagedOnWSClose ==
  /\ managed.ws \in {"connecting", "open", "failed"}
  /\ \E kind \in (IF managed.ws = "failed" THEN {"close"} ELSE {"error", "close"}) :
       Leave(managedOnWSClose([Enter EXCEPT !.ws = IF kind = "error" THEN "failed"
                                                   ELSE "closed"]),
             IF kind = "error" THEN "onerror" ELSE "onclose")
  /\ UNCHANGED <<kvars, session, registry, manager>>

\* ManagedSocket._onWSMessage(evt)
ManagedOnWSMessage ==
  /\ managed.ws = "open"
  /\ Leave(Enter, "onmessage")
  /\ UNCHANGED <<kvars, session, registry, manager>>

\* The timer set by _onWSClose fires.
ManagedTimer ==
  /\ managed.timer
  /\ Leave(managedCreateSocket([Enter EXCEPT !.timer = FALSE, !.timeout = 0]), "timer")
  /\ UNCHANGED <<kvars, session, registry, manager>>

\* The WebSocket that _close() let go fires a late event.
ManagedLateEvent ==
  /\ managed.old # "none"
  /\ Leave(managedLateEvent(Enter), "late")
  /\ UNCHANGED <<kvars, session, registry, manager>>

\* The ManagedSocket on its own.
NextManaged ==
  \/ ManagedConnect
  \/ ManagedSend
  \/ ManagedClose
  \/ ManagedDispose
  \/ ManagedOnWSOpen
  \/ ManagedOnWSClose
  \/ ManagedOnWSMessage
  \/ ManagedTimer
  \/ ManagedLateEvent

\* --------------------------------------------------------- DefaultSession
\* The values given to setPath, setName and setType.
SessionValues ==
  [path |-> {"a", "b"}, name |-> {"", "n"}, type |-> {"", "t"}]

SessionFields == {"path", "name", "type"}

\* The session a server keeps: validateModel wants an id and a kernel in it.
NoServerSession == [exists |-> FALSE, path |-> "", name |-> "", type |-> ""]

\* The fields of a DefaultSession after its constructor, with the requests
\* it has in flight (each PATCH with its data and, under old, the value the
\* field had when the setter was called; each DELETE with the id in its
\* url), the number of calls made of its methods, and the server's session.
\* _kernel is null in every state: nothing
\* assigns it but setupKernel, which update() reaches only through
\* _getKernelOptions(), and that reads this.kernel.username.
NewSession ==
  [id |-> "null", path |-> "a", name |-> "", type |-> "", updating |-> FALSE,
   isDisposed |-> FALSE, posts |-> <<>>, patches |-> <<>>, deletes |-> <<>>,
   server |-> NoServerSession, calls |-> 0,
   op |-> "new", ev |-> <<>>, threw |-> FALSE,
   answered |-> [data |-> "", value |-> "", old |-> ""], outcome |-> ""]

SNote(x, e) == [x EXCEPT !.ev = Append(@, e)]

RemoveAt(q, i) == SubSeq(q, 1, i - 1) \o SubSeq(q, i + 1, Len(q))

\* DefaultSession.dispose()
sessionDispose(x) ==
  IF x.isDisposed THEN x ELSE SNote([x EXCEPT !.isDisposed = TRUE], "dispose")

\* DefaultSession.update(model): model.kernel.id is a string and
\* oldModel.kernel.id is undefined, so the branch that connects to the
\* kernel is taken and _getKernelOptions() throws a TypeError on
\* this.kernel.username, after the four fields were assigned.
sessionUpdate(x, model) ==
  IF x.updating THEN x
  ELSE [x EXCEPT !.id = "s1", !.path = model.path, !.type = model.type,
                 !.name = model.name, !.threw = TRUE]

\* Private.updateFromServer(model)
updateFromServer(x, model) ==
  IF ~x.isDisposed /\ x.path = model.path THEN sessionUpdate(x, model) ELSE x

\* DefaultSession._patch(data), up to the request
patch(x, req) ==
  [x EXCEPT !.patches = Append(@, req), !.updating = TRUE]

\* DefaultSession.setPath(path), setName(name), setType(type)
setField(x, field, v) ==
  IF x[field] = v THEN SNote(x, "resolved")
  ELSE IF x.isDisposed THEN SNote(x, "rejected")
  ELSE LET a == SNote([x EXCEPT ![field] = v], "changed")
       IN IF a.id = "null" THEN SNote(a, "resolved")
          ELSE patch(a, [data |-> field, value |-> v, old |-> x[field]])

setPath(x, v) == setField(x, "path", v)

setName(x, v) == setField(x, "name", v)

setType(x, v) == setField(x, "type", v)

\* DefaultSession.startKernel(options)
startKernel(x) ==
  IF x.isDisposed THEN SNote(x, "rejected")
  ELSE IF x.id = "null"
  THEN [x EXCEPT !.posts = Append(@, [exists |-> TRUE, path |-> x.path,
                                      name |-> x.name, type |-> x.type])]
  ELSE patch(x, [data |-> "kernel", value |-> "", old |-> ""])

\* DefaultSession.shutdown()
sessionShutdown(x) ==
  IF x.isDisposed THEN SNote(x, "rejected")
  ELSE [x EXCEPT !.deletes = Append(@, x.id), !.id = "null"]

\* The promise of a request whose callback ran: rejected when the callback
\* threw.
settled(x) ==
  IF x.threw THEN SNote([x EXCEPT !.threw = FALSE], "rejected")
  ELSE SNote(x, "resolved")

\* The callbacks of Private.startSession
postDone(x, outcome) ==
  LET a == [x EXCEPT !.posts = Tail(@), !.outcome = outcome]
  IN IF outcome # "201" THEN SNote(a, "rejected")
     ELSE LET b == [a EXCEPT !.server = Head(x.posts)]
          IN settled(updateFromServer(b, b.server))

\* The callbacks of DefaultSession._patch for the i-th PATCH in flight
patchDone(x, i, outcome) ==
  LET req == x.patches[i]
      a == [x EXCEPT !.patches = RemoveAt(@, i), !.updating = FALSE,
                     !.answered = req, !.outcome = outcome]
  IN IF outcome # "200" THEN SNote(a, "rejected")
     ELSE LET b == IF req.data = "kernel" THEN a
                   ELSE [a EXCEPT !.server[req.data] = req.value]
          IN settled(updateFromServer(b, b.server))

\* Private.killSessions(id)
killSessions(x, id) ==
  IF ~x.isDisposed /\ x.id = id
  THEN sessionDispose(SNote(x, "terminated")) ELSE x

\* The callbacks of Private.shutdownSession for the i-th DELETE in flight
deleteDone(x, i, outcome) ==
  LET id == x.deletes[i]
      a == [x EXCEPT !.deletes = RemoveAt(@, i), !.outcome = outcome,
                     !.answered = [data |-> "delete", value |-> id, old |-> ""]]
      b == IF outcome = "204" THEN [a EXCEPT !.server = NoServerSession] ELSE a
  IN IF outcome \in {"204", "404"} THEN SNote(killSessions(b, id), "resolved")
     ELSE SNote(b, "rejected")

SEnter == [session EXCEPT !.ev = <<>>, !.threw = FALSE]

\* The start of a call by the user
SCall == [SEnter EXCEPT !.calls = @ + 1]

SLeave(x, op) == session' = [x EXCEPT !.op = op]

SessionSet ==
  /\ Len(session.patches) < MaxPatches /\ session.calls < MaxSessionCalls
  /\ \E field \in SessionFields : \E v \in SessionValues[field] :
       SLeave(setField(SCall, field, v), "set")
  /\ UNCHANGED <<kvars, managed, registry, manager>>

SessionStartKernel ==
  /\ Len(session.patches) < MaxPatches /\ session.posts = <<>>
  /\ session.calls < MaxSessionCalls
  /\ SLeave(startKernel(SCall), "startKernel")
  /\ UNCHANGED <<kvars, managed, registry, manager>>

SessionShutdown ==
  /\ Len(session.deletes) < MaxDeletes /\ session.calls < MaxSessionCalls
  /\ SLeave(sessionShutdown(SCall), "shutdown")
  /\ UNCHANGED <<kvars, managed, registry, manager>>

\* What the server can answer: 201 to the POST that creates its session, 200
\* to a PATCH and 204 to a DELETE of the session it keeps, 404 to a DELETE of
\* another, and an error or another status to any request.
PostDone ==
  /\ session.posts # <<>>
  /\ \E outcome \in (IF session.server.exists THEN {} ELSE {"201"})
                      \cup {"other", "error"} :
       SLeave(postDone(SEnter, outcome), "postDone")
  /\ UNCHANGED <<kvars, managed, registry, manager>>

PatchDone ==
  /\ \E i \in DOMAIN session.patches :
       \E outcome \in (IF session.server.exists THEN {"200"} ELSE {})
                        \cup {"other", "error"} :
         SLeave(patchDone(SEnter, i, outcome), "patchDone")
  /\ UNCHANGED <<kvars, managed, registry, manager>>

DeleteDone ==
  /\ \E i \in DOMAIN session.deletes :
       \E outcome \in (IF session.server.exists /\ session.deletes[i] = "s1"
                       THEN {"204"} ELSE {"404"}) \cup {"other"} :
         SLeave(deleteDone(SEnter, i, outcome), "deleteDone")
  /\ UNCHANGED <<kvars, managed, registry, manager>>

NextSession ==
  \/ SessionSet
  \/ SessionStartKernel
  \/ SessionShutdown
  \/ PostDone
  \/ PatchDone
  \/ DeleteDone

\* ------------------------------------------- the registry of running kernels
\* The module functions of kernel.ts that make Kernel objects. A KernelSocket
\* is known by the order in which it was made (0: none), a Kernel object by
\* its place in kernels.
KernelIds == {"k1", "k2"}

\* The options argument of a call: left out, an object without clientId, an
\* object with the clientId the caller chose.
Options == {"undefined", "empty", "client"}

\* socketIds[n] is the _id of the n-th KernelSocket and wsClosed holds the
\* KernelSockets whose _ws is null after dispose().
NewRegistry ==
  [runningKernels |-> [i \in KernelIds |-> 0], sockets |-> 0,
   socketIds |-> <<>>, wsClosed |-> {},
   kernels |-> <<>>, lookups |-> <<>>,
   op |-> "new", id |-> "", outcome |-> "", result |-> 0]

\* options.clientId || utils.uuid(): 0 is the clientId the caller chose, and
\* the uuid of the n-th Kernel object is written n.
clientIdOf(x, options) ==
  IF options = "client" THEN 0 ELSE Len(x.kernels) + 1

\* new Kernel(options, socket) with the socket registered for id, and the
\* promise that is resolved with it; the constructor reads
\* options.ajaxSettings first.
newKernel(x, options, id) ==
  IF options = "undefined" THEN [x EXCEPT !.outcome = "threw", !.result = 0]
  ELSE [x EXCEPT !.kernels = Append(@, [id |-> id,
                                         clientId |-> clientIdOf(x, options),
                                         socket |-> x.runningKernels[id],
                                         isDisposed |-> FALSE]),
                 !.outcome = "resolved", !.result = Len(x.kernels) + 1]

\* new KernelSocket(options, id): reads options.baseUrl, registers itself
\* under id and opens its WebSocket.
newKernelSocket(x, options, id) ==
  IF options = "undefined" THEN x
  ELSE [x EXCEPT !.sockets = @ + 1, !.runningKernels[id] = x.sockets + 1,
                 !.socketIds = Append(@, id)]

\* connectToKernel(id, options), up to its return
connectToKernel(x, id, options) ==
  IF x.runningKernels[id] # 0 THEN newKernel(x, options, id)
  ELSE [x EXCEPT !.lookups = Append(@, [kind |-> "connect", id |-> id,
                                        options |-> options]),
                 !.outcome = "pending", !.result = 0]

\* An exception in a then-callback rejects the promise.
asRejection(x) ==
  IF x.outcome = "threw" THEN [x EXCEPT !.outcome = "rejected"] ELSE x

\* The callbacks of connectToKernel when GET api/kernels/{id} is answered
connectDone(x, id, options, found) ==
  IF ~found THEN [x EXCEPT !.outcome = "rejected", !.result = 0]
  ELSE asRejection(newKernel(newKernelSocket(x, options, id), options, id))

\* startNewKernel(options), up to its return: options = options || {}
startNewKernel(x, options) ==
  [x EXCEPT !.lookups = Append(@, [kind |-> "start", id |-> "",
                                   options |-> IF options = "undefined"
                                               THEN "empty" ELSE options]),
            !.outcome = "pending", !.result = 0]

\* The callbacks of startNewKernel when POST api/kernels is answered: with
\* 201 and the id of the kernel, or not.
startDone(x, id, options, created) ==
  IF ~created THEN [x EXCEPT !.outcome = "rejected", !.result = 0]
  ELSE newKernel(IF x.runningKernels[id] # 0 THEN x
                 ELSE newKernelSocket(x, options, id), options, id)

\* The key under which KernelSocket.dispose() deletes: this._wsUrl, the
\* websocket url of the server, which is the id of no kernel.
wsUrl == "ws://localhost:8888"

\* delete Private.runningKernels[key]
deleteRunning(x, key) ==
  [x EXCEPT !.runningKernels =
     [i \in KernelIds |-> IF i = key THEN 0 ELSE x.runningKernels[i]]]

\* KernelSocket.dispose() of the n-th KernelSocket
kernelSocketDispose(x, n) ==
  IF n \in x.wsClosed THEN x
  ELSE [deleteRunning(x, wsUrl) EXCEPT !.wsClosed = @ \cup {n}]

\* Kernel.dispose() of the i-th Kernel object: by the user, or by
\* _updateStatus('dead') at an iopub status or at the reconnect limit
disposeKernel(x, i) ==
  IF x.kernels[i].isDisposed THEN x
  ELSE [kernelSocketDispose(x, x.kernels[i].socket)
          EXCEPT !.kernels[i].isDisposed = TRUE]

REnter(op, id) == [registry EXCEPT !.op = op, !.id = id]

RLeave(x) ==
  /\ registry' = x
  /\ UNCHANGED <<kvars, managed, session, manager>>

RBudget == Len(registry.kernels) + Len(registry.lookups) < MaxKernels

StartNewKernel ==
  /\ RBudget /\ Len(registry.lookups) < MaxLookups
  /\ \E options \in Options :
       RLeave(startNewKernel(REnter("startNewKernel", ""), options))

ConnectToKernel ==
  /\ RBudget /\ Len(registry.lookups) < MaxLookups
  /\ \E id \in KernelIds, options \in Options :
       RLeave(connectToKernel(REnter("connectToKernel", id), id, options))

\* The server answers the i-th lookup in flight.
Answer(i) == [registry EXCEPT !.lookups = RemoveAt(@, i)]

StartDone ==
  \E i \in DOMAIN registry.lookups, id \in KernelIds, created \in BOOLEAN :
    /\ registry.lookups[i].kind = "start"
    /\ RLeave(startDone([Answer(i) EXCEPT !.op = "startDone", !.id = id],
                        id, registry.lookups[i].options, created))

ConnectDone ==
  \E i \in DOMAIN registry.lookups, found \in BOOLEAN :
    /\ registry.lookups[i].kind = "connect"
    /\ RLeave(connectDone([Answer(i) EXCEPT !.op = "connectDone",
                                            !.id = registry.lookups[i].id],
                          registry.lookups[i].id,
                          registry.lookups[i].options, found))

DisposeKernel ==
  \E i \in DOMAIN registry.kernels :
    /\ ~registry.kernels[i].isDisposed
    /\ RLeave(disposeKernel(REnter("dispose", registry.kernels[i].id), i))

NextRegistry ==
  \/ StartNewKernel
  \/ ConnectToKernel
  \/ StartDone
  \/ ConnectDone
  \/ DisposeKernel

\* ---------------------------------------------------------- SessionManager
\* The sessions of the server are s1 and s2, and the notebooks a and b. A
\* session model is an id, a path and a kernel model: that of the server
\* names a kernel ("k"), that of a DefaultSession without kernel has only
\* the default kernel name ("none").
SessionIds == {"s1", "s2"}
Paths == {"a", "b"}

ServerModel(id, path) == [id |-> id, path |-> path, kernel |-> "k"]

\* The answers of GET api/sessions: the server keeps at most one session
\* under a path.
ServerModels == { ServerModel(i, q) : i \in SessionIds, q \in Paths }

ServerLists ==
  {<<>>}
  \cup { <<m>> : m \in ServerModels }
  \cup { p \in ServerModels \X ServerModels :
           p[1].id # p[2].id /\ p[1].path # p[2].path }

\* The answers of GET api/kernelspecs
SpecModels == {"A", "B"}

NewManager ==
  [running |-> <<>>, specs |-> "null", sessions |-> <<>>, made |-> 0,
   requests |-> <<>>, calls |-> 0,
   op |-> "new", ev |-> <<>>, threw |-> FALSE, outcome |-> ""]

\* signal.emit(...) of the manager
MEmit(x, e) == [x EXCEPT !.ev = Append(@, e)]

\* ArrayExt.findFirstIndex(q, value => value.id === id), counted from 1; 0
\* is -1.
IndexById(q, id) ==
  LET I == {i \in DOMAIN q : q[i].id = id}
  IN IF I = {} THEN 0 ELSE CHOOSE i \in I : \A j \in I : i <= j

\* find(q, value => value.path === path)
IndexByPath(q, path) ==
  LET I == {i \in DOMAIN q : q[i].path = path}
  IN IF I = {} THEN 0 ELSE CHOOSE i \in I : \A j \in I : i <= j

\* DefaultSession.model
modelOf(s) == [id |-> s.id, path |-> s.path, kernel |-> "none"]

\* new DefaultSession(options): _id is null, and the object is pushed on
\* Private.runningSessions.
newSession(x, path) ==
  [x EXCEPT !.made = @ + 1,
            !.sessions = Append(@, [n |-> x.made + 1, id |-> "null",
                                    path |-> path, updating |-> FALSE,
                                    watched |-> FALSE, ids |-> {},
                                    terminated |-> FALSE])]

\* SessionManager._onTerminated(id)
onTerminated(x, id) ==
  IF IndexById(x.running, id) = 0 THEN x
  ELSE MEmit([x EXCEPT !.running = RemoveAt(@, IndexById(x.running, id))],
             "runningChanged")

\* SessionManager._onStarted(session) for the session at place k of
\* Private.runningSessions
pushRunning(x, model) ==
  IF IndexById(x.running, model.id) # 0 THEN x
  ELSE MEmit([x EXCEPT !.running = Append(@, model)], "runningChanged")

onStarted(x, k) ==
  [pushRunning(x, modelOf(x.sessions[k])) EXCEPT
     !.sessions[k].watched = TRUE,
     !.sessions[k].ids = @ \cup {x.sessions[k].id},
     !.outcome = "resolved"]

\* SessionManager._onChanged(model)
onChanged(x, model) ==
  IF IndexByPath(x.running, model.path) = 0 THEN x
  ELSE IF x.running[IndexByPath(x.running, model.path)] = model THEN x
  ELSE MEmit([x EXCEPT !.running[IndexByPath(x.running, model.path)] = model],
             "runningChanged")

\* session.changed.emit(...) of the session at place k: the slot that
\* _onStarted connected
changedEmit(x, k) ==
  IF x.sessions[k].watched THEN onChanged(x, modelOf(x.sessions[k])) ELSE x

\* session.terminated.emit() of the session at place k: each slot that
\* _onStarted connected calls _onTerminated with the id the session had.
onTerminatedIf(x, ids, id) == IF id \in ids THEN onTerminated(x, id) ELSE x

terminatedEmit(x, k) ==
  onTerminatedIf(onTerminatedIf(onTerminatedIf(x, x.sessions[k].ids, "null"),
                                x.sessions[k].ids, "s1"),
                 x.sessions[k].ids, "s2")

\* Private.killSessions(id)
killRunningSessions(x, id) ==
  LET RECURSIVE go(_)
      go(y) == IF IndexById(y.sessions, id) = 0 THEN y
               ELSE go([terminatedEmit(y, IndexById(y.sessions, id)) EXCEPT
                          !.sessions = RemoveAt(@, IndexById(y.sessions, id))])
  IN go(x)

\* The calls of session.update(model) in Private.updateRunningSessions(list)
\* and Private.updateFromServer(model), for the sessions whose path is in
\* the list. The sessions have no kernel: update() returns at once while a
\* PATCH is outstanding, and otherwise assigns the id and throws in
\* _getKernelOptions, which ends the loop.
Updatable(x, list) ==
  {k \in DOMAIN x.sessions :
     ~x.sessions[k].updating /\ IndexByPath(list, x.sessions[k].path) # 0}

updateSessions(x, list) ==
  LET K == Updatable(x, list)
      k == CHOOSE i \in K : \A j \in K : i <= j
  IN IF K = {} THEN x
     ELSE [x EXCEPT !.sessions[k].id =
                       list[IndexByPath(list, x.sessions[k].path)].id,
                    !.threw = TRUE]

\* (a status getter that reports a session without kernel as idle)
sessionStatusIdle(s) == "idle"

\* DefaultSession.status: this._kernel ? this._kernel.status : 'dead', where
\* _kernel is null
sessionStatus(s) == "dead"

\* session.terminated.emit() in the loop of Private.updateRunningSessions,
\* for the session at place j when no model of the list has its path and
\* its status is not 'dead'; terminated records that the poll reported it.
reportTerminated(x, list, j) ==
  IF IndexByPath(list, x.sessions[j].path) = 0
       /\ sessionStatus(x.sessions[j]) # "dead"
  THEN [terminatedEmit(x, j) EXCEPT !.sessions[j].terminated = TRUE]
  ELSE x

\* The places the loop of updateRunningSessions passes without an
\* exception: all of them, or those before the first session whose update
\* throws.
Passed(x, list) ==
  IF Updatable(x, list) = {} THEN Len(x.sessions)
  ELSE (CHOOSE i \in Updatable(x, list) :
          \A j \in Updatable(x, list) : i <= j) - 1

RECURSIVE reportUpTo(_, _, _)
reportUpTo(x, list, j) ==
  IF j = 0 THEN x ELSE reportTerminated(reportUpTo(x, list, j - 1), list, j)

\* Private.updateRunningSessions(list), called by Private.listRunning
updateRunningSessions(x, list) ==
  updateSessions(reportUpTo(x, list, Passed(x, list)), list)

\* An exception in a then-callback rejects the promise of the callback.
rejected(x) == [x EXCEPT !.threw = FALSE, !.outcome = "rejected"]

\* SessionManager._refreshSpecs(), when Kernel.getSpecs is answered
refreshSpecsDone(x, specs) ==
  IF specs # x.specs
  THEN MEmit([x EXCEPT !.specs = specs, !.outcome = "resolved"], "specsChanged")
  ELSE [x EXCEPT !.outcome = "resolved"]

\* (a refresh that replaces the cache and emits whatever the answer is)
replaceRunningAlways(x, list) ==
  MEmit([x EXCEPT !.running = list, !.outcome = "resolved"], "runningChanged")

\* The then-callback of _refreshRunning
replaceRunning(x, list) ==
  IF list # x.running
  THEN MEmit([x EXCEPT !.running = list, !.outcome = "resolved"],
             "runningChanged")
  ELSE [x EXCEPT !.outcome = "resolved"]

\* SessionManager._refreshRunning(), when Session.listRunning is answered
refreshRunningDone(x, list) ==
  IF updateRunningSessions(x, list).threw
  THEN rejected(updateRunningSessions(x, list))
  ELSE replaceRunning(updateRunningSessions(x, list), list)

\* A request in flight
request(x, kind, arg, id, n) ==
  [x EXCEPT !.requests = Append(@, [kind |-> kind, arg |-> arg, id |-> id,
                                    n |-> n]),
            !.outcome = "pending"]

\* SessionManager.startNew(options) with options.path = path, up to the
\* request: Private.connectTo resolves with a session of Private.runningSessions
\* that has the path.
startNew(x, path) ==
  IF IndexByPath(x.sessions, path) # 0
  THEN onStarted(x, IndexByPath(x.sessions, path))
  ELSE request(x, "start", path, "", 0)

\* Private.connectTo(path), when the list of findByPath is answered: a model
\* with the path makes a DefaultSession, whose update(model) throws.
connectFound(x, path, list) ==
  IF x.threw \/ IndexByPath(list, path) = 0 THEN rejected(x)
  ELSE rejected([newSession(x, path) EXCEPT
                   !.sessions[Len(x.sessions) + 1].id =
                      list[IndexByPath(list, path)].id])

\* The catch of DefaultSession.startNew, and the then of
\* SessionManager.startNew
startFresh(x, path) == onStarted(newSession(x, path), Len(x.sessions) + 1)

startNewDone(x, path, list) ==
  startFresh(connectFound(updateRunningSessions(x, list), path, list), path)

\* SessionManager.connectTo(path)
connectTo(x, path) ==
  IF IndexByPath(x.sessions, path) # 0
  THEN onStarted(x, IndexByPath(x.sessions, path))
  ELSE request(x, "connect", path, "", 0)

connectToDone(x, path, list) ==
  connectFound(updateRunningSessions(x, list), path, list)

\* SessionManager.shutdown(id), up to the request: Private.shutdown looks for
\* a session whose path is the argument, among the sessions of the page and
\* then in the list of the server, and deletes the session with the id of
\* that model.
managerShutdown(x, arg) ==
  IF IndexByPath(x.sessions, arg) # 0
  THEN request(x, "delete", arg,
               x.sessions[IndexByPath(x.sessions, arg)].id, 0)
  ELSE request(x, "list", arg, "", 0)

shutdownFound(x, arg, list) ==
  IF x.threw \/ IndexByPath(list, arg) = 0 THEN rejected(x)
  ELSE request(x, "delete", arg, list[IndexByPath(list, arg)].id, 0)

shutdownListDone(x, arg, list) ==
  shutdownFound(updateRunningSessions(x, list), arg, list)

\* Private.shutdownSession, when the DELETE is answered, and the then of
\* SessionManager.shutdown
managerDeleteDone(x, arg, id, code) ==
  IF code \in {"204", "404"}
  THEN [onTerminated(killRunningSessions(x, id), arg) EXCEPT !.outcome = "resolved"]
  ELSE rejected(x)

\* DefaultSession.setPath(path) of the session at place k
sessionSetPath(x, k, path) ==
  IF x.sessions[k].path = path THEN [x EXCEPT !.outcome = "resolved"]
  ELSE IF x.sessions[k].id = "null"
  THEN [changedEmit([x EXCEPT !.sessions[k].path = path], k)
          EXCEPT !.outcome = "resolved"]
  ELSE request([changedEmit([x EXCEPT !.sessions[k].path = path], k)
                  EXCEPT !.sessions[k].updating = TRUE],
               "patch", path, x.sessions[k].id, x.sessions[k].n)

\* DefaultSession._patch, when the PATCH is answered
clearUpdating(x, n) ==
  [x EXCEPT !.sessions = [k \in DOMAIN @ |->
                            IF @[k].n = n THEN [@[k] EXCEPT !.updating = FALSE]
                            ELSE @[k]]]

sessionPatchDone(x, n, id, path, ok) ==
  IF ~ok THEN rejected(clearUpdating(x, n))
  ELSE IF updateSessions(clearUpdating(x, n), <<ServerModel(id, path)>>).threw
  THEN rejected(updateSessions(clearUpdating(x, n), <<ServerModel(id, path)>>))
  ELSE [clearUpdating(x, n) EXCEPT !.outcome = "resolved"]

MEnter(op) == [manager EXCEPT !.op = op, !.ev = <<>>, !.threw = FALSE]

MCall(op) == [MEnter(op) EXCEPT !.calls = @ + 1]

MLeave(x) ==
  /\ manager' = x
  /\ UNCHANGED <<kvars, managed, session, registry>>

\* The request at place i is answered.
MAnswer(i, op) == [MEnter(op) EXCEPT !.requests = RemoveAt(@, i)]

MayCall ==
  /\ manager.calls < MaxManagerCalls
  /\ Len(manager.requests) < MaxRequests

\* A refresh, by the interval timer or by a call of refreshSpecs() or
\* refreshRunning(), with the answer to its request
RefreshSpecsDone ==
  /\ manager.calls < MaxManagerCalls
  /\ \E specs \in SpecModels :
       MLeave(refreshSpecsDone(MCall("refreshSpecs"), specs))

RefreshRunningDone ==
  /\ manager.calls < MaxManagerCalls
  /\ \E list \in ServerLists :
       MLeave(refreshRunningDone(MCall("refreshRunning"), list))

ManagerStartNew ==
  /\ MayCall /\ manager.made + 2 <= MaxSessions
  /\ \E path \in Paths : MLeave(startNew(MCall("startNew"), path))

ManagerStartNewDone ==
  \E i \in DOMAIN manager.requests, list \in ServerLists :
    /\ manager.requests[i].kind = "start"
    /\ MLeave(startNewDone(MAnswer(i, "startNewDone"),
                           manager.requests[i].arg, list))

ManagerConnectTo ==
  /\ MayCall /\ manager.made + 1 <= MaxSessions
  /\ \E path \in Paths : MLeave(connectTo(MCall("connectTo"), path))

ManagerConnectToDone ==
  \E i \in DOMAIN manager.requests, list \in ServerLists :
    /\ manager.requests[i].kind = "connect"
    /\ MLeave(connectToDone(MAnswer(i, "connectToDone"),
                            manager.requests[i].arg, list))

ManagerShutdown ==
  /\ MayCall
  /\ \E arg \in SessionIds \cup Paths :
       MLeave(managerShutdown(MCall("shutdown"), arg))

ManagerShutdownListDone ==
  \E i \in DOMAIN manager.requests, list \in ServerLists :
    /\ manager.requests[i].kind = "list"
    /\ MLeave(shutdownListDone(MAnswer(i, "shutdownListDone"),
                               manager.requests[i].arg, list))

ManagerDeleteDone ==
  \E i \in DOMAIN manager.requests, code \in {"204", "404", "500"} :
    /\ manager.requests[i].kind = "delete"
    /\ MLeave(managerDeleteDone(MAnswer(i, "deleteDone"),
                                manager.requests[i].arg,
                                manager.requests[i].id, code))

ManagedSessionSetPath ==
  /\ MayCall
  /\ \E k \in DOMAIN manager.sessions, path \in Paths :
       MLeave(sessionSetPath(MCall("setPath"), k, path))

ManagedSessionPatchDone ==
  \E i \in DOMAIN manager.requests, ok \in BOOLEAN :
    /\ manager.requests[i].kind = "patch"
    /\ MLeave(sessionPatchDone(MAnswer(i, "patchDone"),
                               manager.requests[i].n,
                               manager.requests[i].id,
                               manager.requests[i].arg, ok))

NextManager ==
  \/ RefreshSpecsDone
  \/ RefreshRunningDone
  \/ ManagerStartNew
  \/ ManagerStartNewDone
  \/ ManagerConnectTo
  \/ ManagerConnectToDone
  \/ ManagerShutdown
  \/ ManagerShutdownListDone
  \/ ManagerDeleteDone
  \/ ManagedSessionSetPath
  \/ ManagedSessionPatchDone

\* The promise Private.sendKernelMessage returns for the request with msg id
\* id: its executor connects resolve to the Future's onReply and never uses
\* reject.
requestPromise(id) ==
  IF \E i \in DOMAIN fut[id].cb : fut[id].cb[i] = "reply" THEN "resolved"
  ELSE "pending"

\* ------------------------------------------------------------------- Init
\* new KernelSocket(options, id) creates the WebSocket; new Kernel(options,
\* socket) sends a kernel_info_request (expectReply, disposeOnDone).
InitWith(r) ==
  /\ status = "Unknown"
  /\ disposed = FALSE
  /\ futures = {1}
  /\ fut = [i \in MsgIds |-> IF i = 1 THEN newFuture(TRUE, TRUE) ELSE NoFuture]
  /\ nextId = 1
  /\ comms = {}
  /\ commPromises = [c \in CommIds |-> "none"]
  /\ commObjs = [c \in CommIds |-> "none"]
  /\ loading = [c \in CommIds |-> FALSE]
  /\ thens = [c \in CommIds |-> <<>>]
  /\ requirejs = r
  /\ targets = FALSE
  /\ kSignals = TRUE
  /\ deletes = 0
  /\ ws = "connecting"
  /\ sSignals = TRUE
  /\ isReady = FALSE
  /\ pendingMessages = <<1>>
  /\ reconnectAttempt = 0
  /\ timer = FALSE
  /\ wire = <<>>
  /\ rcv = [i \in MsgIds |-> {}]
  /\ last = [op |-> "new", threw |-> FALSE, ev |-> <<>>, parent |-> 0]
  /\ managed = NewManagedSocket
  /\ session = NewSession
  /\ registry = NewRegistry
  /\ manager = NewManager

\* A page without requirejs
Init == InitWith(FALSE)

\* A page that has loaded requirejs
InitRequire == InitWith(TRUE)

\* ------------------------------------------------------- calls of the user
SendShellMessage ==
  /\ status # "Dead" => nextId < MaxMsgs
  /\ \E expectReply \in BOOLEAN, disposeOnDone \in BOOLEAN :
       Commit(sendShellMessage(S, expectReply, disposeOnDone), "sendShellMessage")

\* (execute() that asks for no reply)
executeNoReply(s, disposeOnDone) == sendShellMessage(s, FALSE, disposeOnDone)

\* Kernel.execute(contents, disposeOnDone)
execute(s, disposeOnDone) == sendShellMessage(s, TRUE, disposeOnDone)

Execute ==
  /\ status # "Dead" => nextId < MaxExec
  /\ \E disposeOnDone \in BOOLEAN : Commit(execute(S, disposeOnDone), "execute")

SendInputReply ==
  /\ status # "Dead" => nextId < MaxMsgs
  /\ Commit(sendInputReply(S), "sendInputReply")

\* future.dispose() by the holder of a Future
FutureDispose ==
  \E id \in futures :
    Commit(futuresDelete([S EXCEPT !.fut[id] = futureDispose(@)], id),
           "futureDispose")

\* Kernel.interrupt(): Private.interruptKernel rejects when Dead, else POSTs.
\* Kernel.interrupt() with Private.interruptKernel: the client's state is
\* left as it is.
interrupt(s) == s

Interrupt ==
  /\ Commit(interrupt(S), "interrupt")

\* Kernel.restart()
restart(s) ==
  LET a == clearState(s)
  IN IF a.threw THEN a ELSE updateStatus(a, "restarting")

Restart ==
  /\ Commit(restart(S), "restart")

\* Kernel.shutdown() with Private.shutdownKernel up to the DELETE request
shutdown(s) ==
  LET a == clearState(s)
  IN IF a.threw \/ a.status = "Dead" THEN a
     ELSE [a EXCEPT !.deletes = @ + 1]

Shutdown ==
  /\ deletes < MaxRest
  /\ Commit(shutdown(S), "shutdown")

\* (the kernel is disposed whatever the answer to the DELETE is)
shutdownDoneAlways(s, ok) ==
  LET a == [s EXCEPT !.deletes = @ - 1]
  IN Note(kernelDispose(socketDispose(Note(a, IF ok THEN "204" ELSE "rejected"))),
          "resolved")

\* The answer to a DELETE: on 204 the socket and then the kernel are
\* disposed; otherwise the promise is rejected.
shutdownDone(s, ok) ==
  LET a == [s EXCEPT !.deletes = @ - 1]
  IN IF ok THEN Note(kernelDispose(socketDispose(Note(a, "204"))), "resolved")
     ELSE Note(a, "rejected")

ShutdownDone ==
  /\ deletes > 0
  /\ \E ok \in BOOLEAN : Commit(shutdownDone(S, ok), "shutdownDone")

Dispose ==
  /\ ~disposed
  /\ Commit(kernelDispose(S), "dispose")

\* Kernel.connectToComm(targetName, commId)
connectToComm(s, c) ==
  IF s.disposed THEN [s EXCEPT !.threw = TRUE]
  ELSE IF c \in s.comms THEN s
  ELSE [s EXCEPT !.comms = @ \cup {c}, !.commObjs[c] = "local"]

ConnectToComm ==
  \E c \in CommIds : c \notin comms /\ Commit(connectToComm(S, c), "connectToComm")

\* Comm.close() of the Comm made with id c
commClose(s, c) ==
  IF s.commObjs[c] = "disposed" THEN s
  ELSE LET a == sendShellMessage(s, FALSE, TRUE)
       IN IF a.threw THEN a ELSE commDispose(Note(a, "onClose"), c)

CommClose ==
  /\ nextId < MaxMsgs
  /\ \E c \in CommIds :
       /\ commObjs[c] \in {"local", "remote"}
       /\ Commit(commClose(S, c), "commClose")

\* (the callbacks that waited on a promise run last first)
runThensLifo(s, c, q) ==
  LET RECURSIVE go(_, _)
      go(x, n) == IF n = 0 THEN x
                  ELSE go(IF q[n] = "close" THEN commClosed(x, c)
                          ELSE commMsgLater(x, c, q[n]), n - 1)
  IN go(s, Len(q))

\* The callbacks that waited on the promise of a comm_open run in the order
\* in which then() registered them.
runThens(s, c, q) ==
  LET RECURSIVE go(_, _)
      go(x, n) == IF n > Len(q) THEN x
                  ELSE go(IF q[n] = "close" THEN commClosed(x, c)
                          ELSE commMsgLater(x, c, q[n]), n + 1)
  IN go(s, 1)

\* requirejs answers the load that _handleCommOpen started for comm id c:
\* with the module's target, or with an error.
moduleLoaded(s, c, found) ==
  LET a == [s EXCEPT !.loading[c] = FALSE, !.thens[c] = <<>>]
  IN IF ~found
     THEN IF a.commPromises[c] = "pending"
          THEN [a EXCEPT !.commPromises[c] = "rejected"] ELSE a
     ELSE LET b == commOpened(a, c, "moduleTarget")
          IN IF b.disposed THEN b ELSE runThens(b, c, s.thens[c])

ModuleLoaded ==
  \E c \in CommIds, found \in BOOLEAN :
    /\ loading[c]
    /\ Commit(moduleLoaded(S, c, found), "moduleLoaded")

\* Kernel.registerCommTarget(name, cb), and the disposable it returns
registerCommTarget(s, on) ==
  IF s.disposed THEN [s EXCEPT !.threw = TRUE]
  ELSE [s EXCEPT !.targets = on]

RegisterCommTarget ==
  /\ ~disposed
  /\ Commit(registerCommTarget(S, ~targets), "registerCommTarget")

\* ------------------------------------------------- events of the WebSocket
\* KernelSocket._onWSOpen(evt)
onWSOpen(s, k) ==
  sendPending([s EXCEPT !.ws = "open", !.reconnectAttempt = 0,
                        !.isReady = FALSE], k)

OnWSOpen ==
  /\ ws = "connecting"
  /\ \E k \in 0..Len(pendingMessages) : Commit(onWSOpen(S, k), "open")

\* KernelSocket._onWSMessage(evt)
answerKind(m) ==
  IF m.channel = "shell" THEN {"reply"}
  ELSE IF m.msg_type = "status" /\ m.state = "idle" THEN {"idle"}
  ELSE {}

received(s, m) ==
  IF m.parent = 0 THEN s
  ELSE [s EXCEPT !.rcv[m.parent] = @ \cup answerKind(m)]

\* (_onWSMessage without the test for a dead kernel)
onWSMessageUnguarded(s, m) ==
  IF s.sSignals THEN runMicrotasks(onKernelMessage(received(s, m), m), m)
  ELSE s

\* this.msgReceived.emit(msg) in _onWSMessage: the Kernel's slot runs
msgReceivedEmit(s, m) ==
  IF s.sSignals THEN onKernelMessage(received(s, m), m) ELSE s

\* The end of _onWSMessage: a status message decides _isReady and, at the
\* first one that makes the kernel ready, sends the pending messages.
readyAfter(a, m) ==
  IF a.threw \/ headerMsgType(m) # "status" THEN a
  ELSE IF m.state \in {"starting", "busy", "idle"}
  THEN [(IF ~a.isReady THEN sendPending(a, Len(a.pendingMessages))
         ELSE a) EXCEPT !.isReady = TRUE]
  ELSE [a EXCEPT !.isReady = FALSE]

\* KernelSocket._onWSMessage(evt)
onWSMessage(s, m) ==
  IF s.status = "Dead" THEN s
  ELSE runMicrotasks(readyAfter(msgReceivedEmit(s, m), m), m)

\* Frames that carry no valid kernel message: one that the codec cannot
\* decode and one that decodes to a message the validator refuses.
BadFrames == {"malformed", "invalid"}

\* serialize.deserialize(evt.data): fails with MalformedFrame on a frame it
\* cannot decode.
deserialize(frame) ==
  IF frame = "malformed" THEN "MalformedFrame" ELSE "message"

\* validate.validateKernelMessage(msg) throws on a message that is not valid.
validateKernelMessage(frame) == frame # "invalid"

\* KernelSocket._onWSMessage(evt) for such a frame: deserialize is called
\* outside the try block, the validator inside it.
onWSFrame(s, frame) ==
  IF s.status = "Dead" THEN s
  ELSE IF deserialize(frame) = "MalformedFrame" THEN [s EXCEPT !.threw = TRUE]
  ELSE IF ~validateKernelMessage(frame) THEN s
  ELSE Note(s, "msgReceived")

OnBadFrame ==
  /\ ws = "open"
  /\ \E frame \in BadFrames : Commit(onWSFrame(S, frame), frame)

\* The kernel answers only requests it was sent: the parent of a received
\* message is empty or the id of a transmitted message.
Sent == {wire[i] : i \in DOMAIN wire}

\* A comm id is not opened again while its target is being loaded, and at
\* most MaxQueued messages wait for one comm_open.
Receivable ==
  {m \in Msgs :
     /\ m.parent \in Sent \cup {0}
     /\ m.comm # NoComm =>
          /\ m.msg_type = "comm_open" => ~loading[m.comm]
          /\ m.msg_type # "comm_open" => Len(thens[m.comm]) < MaxQueued}

MessageStep(m) ==
  /\ ws = "open"
  /\ CommitAs(onWSMessage(S, m), "message", m.parent)

OnWSMessage == \E m \in Receivable : MessageStep(m)

\* The comm messages of the kernel
OnCommMessage == \E m \in Receivable : m.comm # NoComm /\ MessageStep(m)

\* The comm messages at which a callback of the user throws; the comm_close
\* that answers a failed comm_open takes a message id.
OnThrowingMessage ==
  \E m \in ThrowingMsgs :
    /\ m.msg_type = "comm_open" => ~loading[m.comm] /\ nextId < MaxMsgs
    /\ m.msg_type # "comm_open" => Len(thens[m.comm]) < MaxQueued
    /\ MessageStep(m)

\* A kernel that answers each request with one reply and one idle status.
Orderly == {m \in Receivable : m.parent # 0 /\ answerKind(m) # {}
                                 /\ answerKind(m) \cap rcv[m.parent] = {}}

OnAnswer == \E m \in Orderly : MessageStep(m)

\* KernelSocket._onWSClose(evt), for a close or an error event
onWSClose(s) ==
  IF s.status = "Dead" THEN [s EXCEPT !.ws = "closed"]
  ELSE LET a == [s EXCEPT !.ws = "null"]
       IN IF a.reconnectAttempt < reconnectLimit
          THEN [updateStatus(a, "reconnecting")
                  EXCEPT !.timer = TRUE, !.reconnectAttempt = @ + 1]
          ELSE updateStatus(a, "dead")

OnWSClose ==
  /\ ws \in {"connecting", "open"}
  /\ Commit(onWSClose(S), "close")

\* The reconnect timer: KernelSocket._createSocket()
createSocket(s) == [s EXCEPT !.ws = "connecting", !.timer = FALSE]

TimerFire ==
  /\ timer
  /\ Commit(createSocket(S), "timer")

Next ==
  \/ SendShellMessage
  \/ Execute
  \/ SendInputReply
  \/ FutureDispose
  \/ Interrupt
  \/ Restart
  \/ Shutdown
  \/ ShutdownDone
  \/ Dispose
  \/ ConnectToComm
  \/ RegisterCommTarget
  \/ OnWSOpen
  \/ OnWSMessage
  \/ OnWSClose
  \/ TimerFire
  \/ CommClose
  \/ ModuleLoaded
  \/ OnCommMessage
  \/ OnThrowingMessage
  \/ OnBadFrame
  \/ OnAnswer
  \/ NextManaged
  \/ NextSession
  \/ NextRegistry
  \/ NextManager

Spec == Init /\ [][Next]_vars

\* The dispatch of received messages to Futures and signals.
NextDispatch ==
  \/ SendShellMessage
  \/ FutureDispose
  \/ Restart
  \/ OnWSOpen
  \/ OnWSMessage

\* The life cycle of the engine and of its socket.
NextLife ==
  \/ SendInputReply
  \/ Interrupt
  \/ Restart
  \/ Shutdown
  \/ ShutdownDone
  \/ Dispose
  \/ OnWSOpen
  \/ OnWSMessage
  \/ OnWSClose
  \/ TimerFire

\* The calls of the user on an engine whose socket stays connected.
NextCalls ==
  \/ SendShellMessage
  \/ SendInputReply
  \/ Interrupt
  \/ Restart
  \/ Shutdown
  \/ ShutdownDone
  \/ Dispose
  \/ OnWSOpen
  \/ OnWSMessage

SpecCalls == Init /\ [][NextCalls]_vars

SpecLife == Init /\ [][NextLife]_vars

\* The disposal of an engine that holds Futures, Comms and comm targets, with
\* a socket that may be reconnecting.
NextDisposal ==
  \/ SendShellMessage
  \/ Dispose
  \/ ConnectToComm
  \/ RegisterCommTarget
  \/ OnWSOpen
  \/ OnWSMessage
  \/ OnWSClose
  \/ TimerFire

SpecDisposal == Init /\ [][NextDisposal]_vars

SpecDispatch == Init /\ [][NextDispatch]_vars

\* Requests made with execute() to a kernel that answers each of them once.
NextOrderly ==
  \/ Execute
  \/ OnWSOpen
  \/ OnAnswer
  \/ OnWSClose
  \/ TimerFire

SpecOrderly == Init /\ [][NextOrderly]_vars

\* Comms opened from both sides on a page with requirejs, and restart(), with
\* a kernel that answers each request once.
NextComm ==
  \/ ConnectToComm
  \/ RegisterCommTarget
  \/ CommClose
  \/ Restart
  \/ OnWSOpen
  \/ OnCommMessage
  \/ OnThrowingMessage
  \/ OnAnswer
  \/ ModuleLoaded

SpecComm == InitRequire /\ [][NextComm]_vars

\* Requests and comms of an engine whose socket also receives frames that
\* are no valid kernel messages.
NextFrames ==
  \/ SendShellMessage
  \/ ConnectToComm
  \/ OnWSOpen
  \/ OnAnswer
  \/ OnBadFrame

SpecFrames == Init /\ [][NextFrames]_vars

SpecRegistry == Init /\ [][NextRegistry]_vars

SpecManager == Init /\ [][NextManager]_vars

SpecSession == Init /\ [][NextSession]_vars

SpecManaged == Init /\ [][NextManaged]_vars

TypeOK ==
  /\ status \in KernelStatus
  /\ futures \subseteq MsgIds
  /\ nextId \in 0..MaxIds
  /\ ws \in {"null", "connecting", "open", "closed"}
  /\ reconnectAttempt \in 0..reconnectLimit
  /\ deletes \in 0..MaxRest
  /\ comms \subseteq CommIds
  /\ \A c \in CommIds :
       /\ commPromises[c] \in {"none", "pending", "rejected"}
       /\ commObjs[c] \in {"none", "local", "remote", "disposed"}
       /\ Len(thens[c]) <= MaxQueued
       /\ loading[c] => requirejs

\* ------------------------------------------------------------------ claims
Count(seq, e) == Cardinality({i \in DOMAIN seq : seq[i] = e})

Answered(id) ==
  "idle" \in rcv[id] /\ (fut[id].expectReply => "reply" \in rcv[id])

\* C1: a Future is done only once the idle status, and for expectReply also
\* the shell reply, with its msg id as parent have been received, in either
\* order; a registered Future is done as soon as they have; onDone has then
\* fired once, and a Future with disposeOnDone has left the registry.
C1_DoneOnceReplyAndIdle ==
  \A id \in MsgIds :
    /\ fut[id].done => Answered(id)
    /\ (id \in futures /\ Answered(id)) => fut[id].done
    /\ fut[id].done <=> Count(fut[id].cb, "done") = 1
    /\ (fut[id].done /\ fut[id].disposeOnDone) => id \notin futures

\* The reply arrives after the idle status and completes the Future.
C1_Witness ==
  \E id \in MsgIds :
    /\ fut[id].expectReply /\ fut[id].done /\ rcv[id] = {"reply", "idle"}
    /\ last.op = "message"
    /\ Count(last.ev, "onReply") = 1 /\ Count(last.ev, "onDone") = 1

Before(seq, e, others) ==
  \A i, j \in DOMAIN seq : (seq[i] = e /\ seq[j] \in others) => i < j

Seen(f) == <<f.replyReceived, f.idleReceived, f.done, f.cb>>

\* C3: a received message whose parent names a registered Future is handed
\* to that Future exactly once, and before the kernel emits it on
\* iopubReceived or unhandledMessage; that holds for the idle status that
\* completes the Future too; no other Future sees the message.
C3_DeliveredOnceBeforeEmission ==
  [][(last'.op = "message" /\ last'.parent \in futures) =>
       /\ Count(last'.ev, "future") = 1
       /\ Before(last'.ev, "future", {"iopub", "unhandled", "statusChanged"})
       /\ Before(last'.ev, "onDone", {"iopub", "unhandled", "statusChanged"})
       /\ \A id \in MsgIds \ {last'.parent} : Seen(fut'[id]) = Seen(fut[id])]_vars

\* An idle status completes a Future and is then emitted on iopubReceived.
C3_Witness ==
  /\ last.op = "message"
  /\ Count(last.ev, "future") = 1 /\ Count(last.ev, "onDone") = 1
  /\ Count(last.ev, "iopub") = 1

\* C4: on a kernel that is not disposed a received message is emitted on
\* unhandledMessage exactly when no registered Future has its parent's msg
\* id; a message naming a disposed Future is emitted on unhandledMessage and
\* is not delivered to it.
C4_UnhandledIffNoLiveFuture ==
  [][(last'.op = "message" /\ ~disposed /\ ~disposed') =>
       /\ Count(last'.ev, "unhandled") = 1 <=> last'.parent \notin futures
       /\ Count(last'.ev, "unhandled") = 0 <=> last'.parent \in futures
       /\ (last'.parent # 0 /\ fut[last'.parent].isDisposed) =>
             /\ Count(last'.ev, "unhandled") = 1
             /\ Count(last'.ev, "future") = 0
             /\ fut' = fut]_vars

\* A reply arrives for a Future that was disposed before it could see one.
C4_Witness ==
  /\ ~disposed /\ last.op = "message" /\ last.ev = <<"unhandled">>
  /\ last.parent # 0
  /\ fut[last.parent].isDisposed /\ ~fut[last.parent].replyReceived
  /\ "reply" \in rcv[last.parent]

Signals == {"statusChanged", "iopub", "unhandled"}
Deliveries == {"future", "onReply", "onDone", "comm", "commClose", "target"}

\* C5: Dead is absorbing: from a state whose status is Dead no message, no
\* socket event and no method call changes the status, and statusChanged is
\* not emitted.
C5_DeadIsAbsorbing ==
  [][status = "Dead" =>
       /\ status' = "Dead"
       /\ Count(last'.ev, "statusChanged") = 0]_vars

\* A message arrives on a socket that opened after the kernel was dead.
C5_Witness ==
  status = "Dead" /\ last.op = "message" /\ ws = "open"

\* C6: once the kernel is disposed it emits nothing on statusChanged,
\* iopubReceived or unhandledMessage, and no message is delivered to a
\* Future, a Comm or a comm target; that holds from the moment of disposal,
\* the rest of the handler that disposed the kernel included.
C6_SilentAfterDispose ==
  [][/\ disposed =>
          /\ \A i \in DOMAIN last'.ev : last'.ev[i] \notin Signals \cup Deliveries
          /\ \A id \in MsgIds : Seen(fut'[id]) = Seen(fut[id])
     /\ \A i, j \in DOMAIN last'.ev :
          (last'.ev[i] = "dispose" /\ last'.ev[j] \in Signals \cup Deliveries)
             => j < i]_vars

\* A message arrives on a socket that opened after the kernel was disposed.
C6_Witness ==
  disposed /\ last.op = "message" /\ ws = "open" /\ last.ev = <<>>

\* C7: on a dead kernel sendShellMessage and sendInputReply throw and do
\* nothing else: nothing is transmitted or queued, no Future is registered,
\* no msg id is used, and no other field of the kernel or its socket changes.
C7_SendOnDeadThrows ==
  [][(status = "Dead" /\ last'.op \in {"sendShellMessage", "sendInputReply"}) =>
       /\ last'.threw
       /\ UNCHANGED <<status, disposed, futures, fut, nextId, comms,
                      commPromises, commObjs, loading, thens, requirejs, targets, kSignals, deletes, ws, sSignals,
                      isReady, pendingMessages, reconnectAttempt, timer, wire,
                      rcv>>]_vars

\* sendShellMessage was called on a dead kernel that has a message queued.
C7_Witness ==
  /\ status = "Dead" /\ last.op = "sendShellMessage" /\ last.threw
  /\ pendingMessages # <<>>

\* C8 (as the specification states it): interrupt(), restart() and
\* shutdown() never throw synchronously.
C8_NeverThrows ==
  last.op \in {"interrupt", "restart", "shutdown"} => ~last.threw

\* C10 (as the specification states it): once the kernel has reported the
\* status starting, idle or busy on the open socket, every message passed
\* to send() has been transmitted.
C10_FlushedOnStatus ==
  [][\A m \in Msgs :
       (/\ MessageStep(m) /\ status # "Dead"
        /\ m.msg_type = "status" /\ m.state \in {"starting", "idle", "busy"})
       => pendingMessages' = <<>>]_vars

IsPrefix(a, b) == Len(a) <= Len(b) /\ a = SubSeq(b, 1, Len(a))

\* C2: when every request expects a reply and the kernel answers each with
\* one reply and one idle status, each Future's onReply fires at most once
\* and before onDone, onDone fires at most once, and both have fired, in
\* that order, once the reply and the idle status have been received.
C2_ReplyOnceThenDoneOnce ==
  \A id \in MsgIds :
    /\ IsPrefix(fut[id].cb, <<"reply", "done">>)
    /\ rcv[id] = {"reply", "idle"} => fut[id].cb = <<"reply", "done">>

\* Every request of the sequence has been answered, and the last answer was
\* a reply that followed its idle status.
C2_Witness ==
  /\ nextId = MaxExec
  /\ \A id \in 1..MaxExec : fut[id].cb = <<"reply", "done">>
  /\ last.op = "message" /\ Count(last.ev, "onReply") = 1
  /\ Count(last.ev, "onDone") = 1

Range(seq) == {seq[i] : i \in DOMAIN seq}

\* C9 (as the specification states it): the payloads reach the WebSocket in
\* the order of the calls of send(): they are transmitted in increasing
\* order, and none is transmitted while a payload of an earlier call is
\* still queued.
C9_TransmittedInSendOrder ==
  /\ \A i, j \in DOMAIN managed.wire : i < j => managed.wire[i] < managed.wire[j]
  /\ \A p \in Range(managed.wire), q \in Range(managed.pendingMessages) : p < q

\* C11 (as the specification states it): when the engine has died (iopub
\* dead status, reconnection budget spent) or was shut down, the promise of
\* a kernelInfo request whose reply has not arrived is rejected.
C11_PendingRequestsRejected ==
  (/\ status = "Dead" /\ last.op \in {"message", "close", "shutdownDone"}
   /\ "reply" \notin rcv[1])
  => requestPromise(1) = "rejected"

\* C12 (as the specification states it): shutdown() called again before the
\* first DELETE is answered issues no second DELETE.
C12_OneDelete == deletes <= 1

\* C13: the answer to the DELETE of shutdown() disposes the kernel (status
\* Dead, socket closed, isDisposed) and resolves the promise exactly when it
\* is 204; on any other answer the promise is rejected and status, socket
\* and isDisposed stay as they were.
C13_DisposedIff204 ==
  [][last'.op = "shutdownDone" =>
       IF Count(last'.ev, "204") = 1
       THEN /\ disposed' /\ status' = "Dead" /\ ws' = "null"
            /\ Count(last'.ev, "resolved") = 1 /\ Count(last'.ev, "rejected") = 0
       ELSE /\ Count(last'.ev, "rejected") = 1 /\ Count(last'.ev, "resolved") = 0
            /\ UNCHANGED <<disposed, status, ws, sSignals, kSignals>>]_vars

\* A DELETE was answered 204 and disposed a kernel whose socket was open.
C13_Witness ==
  /\ last.op = "shutdownDone" /\ last.ev = <<"204", "dispose", "resolved">>
  /\ disposed /\ status = "Dead" /\ ws = "null" /\ wire # <<>>

MsgsUntilClose(q) ==
  LET closes == {i \in DOMAIN q : q[i] = "close"}
      n == IF closes = {} THEN Len(q)
           ELSE (CHOOSE i \in closes : \A j \in closes : i <= j) - 1
  IN SubSeq(q, 1, n)

IsTag(x) == \E i \in DOMAIN Tags : Tags[i] = x

\* C18: while the target of a comm_open for comm id c is being loaded, no
\* message is delivered to onMsg; when the load ends with the target, the
\* target callback runs first and the comm_msg that waited are then
\* delivered to onMsg once each, in the order of their arrival.
C18_QueuedBehindOpen ==
  [][/\ (last'.op = "message" /\ \E c \in CommIds : commPromises[c] = "pending")
          => Count(last'.ev, "comm") = 0
     /\ (last'.op = "moduleLoaded" /\ Count(last'.ev, "moduleTarget") = 1) =>
          \A c \in CommIds : (loading[c] /\ ~loading'[c]) =>
             /\ last'.ev[1] = "moduleTarget"
             /\ SelectSeq(last'.ev, IsTag) = MsgsUntilClose(thens[c])
             /\ Count(last'.ev, "comm") = Len(MsgsUntilClose(thens[c]))]_vars

\* Two comm_msg waited for the module of a comm_open and were delivered
\* after its target callback.
C18_Witness ==
  /\ last.op = "moduleLoaded"
  /\ last.ev = <<"moduleTarget", "comm", "msg1", "comm", "msg2">>

\* C19 (as the specification states it): a comm_open that arrives while a
\* callback is registered for its target_name invokes that callback and
\* does not go to the module loader, whether target_module is set or not.
C19_LocalTargetWins ==
  [][\A m \in Msgs :
       (MessageStep(m) /\ m.msg_type = "comm_open" /\ targets /\ ~disposed)
       => /\ Count(last'.ev, "target") = 1
          /\ ~loading'[m.comm]]_vars

\* C20 (as the specification states it): every Comm held in the comms table
\* is open.
C20_TableHoldsOpenComms == \A c \in comms : commObjs[c] # "disposed"

\* C15 (as the specification states it): at most one PATCH request of the
\* session is in flight.
C15_OnePatchInFlight == Len(session.patches) <= 1

\* C16 (as the specification states it): when the PATCH of setPath, setName
\* or setType fails, its promise is rejected and the session's field has
\* again the value it had before the call.
C16_FailedPatchRollsBack ==
  (/\ session.op = "patchDone" /\ session.outcome # "200"
   /\ session.answered.data \in SessionFields)
  => /\ session.ev = <<"rejected">>
     /\ session[session.answered.data] = session.answered.old

\* C17 (as the specification states it): when the DELETE that shutdown()
\* sent for the session's id is answered 204 or 404, terminated has been emitted once on the session and
\* the session is disposed.
C17_TerminatedOnShutdown ==
  (/\ session.op = "deleteDone" /\ session.outcome \in {"204", "404"}
   /\ session.answered.value = "s1")
  => /\ Count(session.ev, "terminated") = 1
     /\ session.isDisposed

\* C21 (as the specification states it): a comm_open, or the end of the load
\* it started, makes no new Comm for a comm id under which the comms table
\* holds an open Comm.
C21_OneCommPerId ==
  [][\A c \in CommIds :
       (c \in comms /\ commObjs[c] \in {"local", "remote"}) =>
          /\ Count(last'.ev, "target") = 0
          /\ Count(last'.ev, "moduleTarget") = 0]_vars

\* C23 (as the specification states it): no entry is kept in commPromises
\* for a comm_open whose target could not be resolved.
C23_UnresolvedNotKept == \A c \in CommIds : commPromises[c] # "rejected"

\* C22: when the registered target throws at a comm_open that a live kernel
\* receives, exactly one message (the comm_close) is handed to the socket,
\* the comm id has no entry in comms and none in commPromises afterwards, and
\* the handler of the frame ends without an exception.
C22_ThrowingTargetClosed ==
  [][\A c \in CommIds :
       (/\ targets /\ status # "Dead" /\ sSignals
        /\ MessageStep(Msg("iopub", "comm_open", "throws", c, 0)))
       => /\ nextId' = nextId + 1
          /\ Len(pendingMessages') + Len(wire')
               = Len(pendingMessages) + Len(wire) + 1
          /\ c \notin comms'
          /\ commPromises'[c] = "none"
          /\ ~last'.threw]_vars

C22_Witness ==
  /\ last.op = "message"
  /\ last.ev = <<"iopub", "unhandled", "target", "exception">>
  /\ "c1" \notin comms /\ commPromises["c1"] = "none"
  /\ commObjs["c1"] = "disposed"
  /\ Len(pendingMessages) + Len(wire) = 2

\* C25 (as the specification states it): a frame whose delivery ran the onMsg
\* handler of a Comm is emitted on the iopub signal, and its handler ends
\* without an exception, whatever onMsg did.
C25_CallbackFailureCaught ==
  (last.op = "message" /\ kSignals /\ Count(last.ev, "comm") > 0)
     => (Count(last.ev, "iopub") = 1 /\ ~last.threw)

\* C24 (as the specification states it): the handler of a frame that cannot
\* be decoded or that fails validation ends without an exception, emits no
\* signal and changes no Future, no Comm and not the status.
C24_BadFrameDiscarded ==
  [][last'.op \in BadFrames =>
       /\ ~last'.threw
       /\ last'.ev = <<>>
       /\ UNCHANGED <<status, futures, fut, comms, commPromises, commObjs>>]_vars

\* C30 (as the specification states it): a send() of the ManagedSocket while
\* its WebSocket is not open appends the payload to the pending queue
\* instead of passing it to the send of a WebSocket.
C30_QueuedWhileNotOpen ==
  [][(managed'.sent = managed.sent + 1 /\ managed.ws # "open")
       => managed'.pendingMessages
            = Append(managed.pendingMessages, managed'.sent)]_vars

\* C26 (as the specification states it): connectToKernel for an id that the
\* registry holds makes no KernelSocket and resolves with the connection
\* that exists for the id: a Kernel made before for the id, with its
\* clientId and its socket.
C26_ReusesConnection ==
  [][(registry'.op = "connectToKernel"
        /\ registry.runningKernels[registry'.id] # 0)
       => /\ registry'.sockets = registry.sockets
          /\ registry'.outcome = "resolved"
          /\ \E i \in DOMAIN registry.kernels :
               /\ registry.kernels[i].id = registry'.id
               /\ registry'.kernels[registry'.result].clientId
                    = registry.kernels[i].clientId
               /\ registry'.kernels[registry'.result].socket
                    = registry.kernels[i].socket]_vars

\* C27: a refresh of the SessionManager emits specsChanged, or
\* runningChanged, exactly when it replaces the cached kernel specs, or the
\* cached running list, by data that differs from them; a refresh whose
\* answer equals the cache leaves the cache as it is and emits nothing.
C27_RefreshOnlyOnChange ==
  [][/\ (manager'.op = "refreshRunning" /\ manager'.calls = manager.calls + 1)
          => /\ manager'.specs = manager.specs
             /\ manager'.ev = IF manager'.running # manager.running
                               THEN <<"runningChanged">> ELSE <<>>
     /\ (manager'.op = "refreshSpecs" /\ manager'.calls = manager.calls + 1)
          => /\ manager'.running = manager.running
             /\ manager'.ev = IF manager'.specs # manager.specs
                               THEN <<"specsChanged">> ELSE <<>>]_vars

C27_Witness ==
  /\ manager.op = "refreshRunning" /\ manager.outcome = "resolved"
  /\ manager.ev = <<>>
  /\ Len(manager.running) = 2

\* C28 (as the specification states it): the call of shutdown(id) of the
\* manager takes the entry with that id out of the running cache and emits
\* runningChanged, before the request is answered.
C28_ShutdownOptimistic ==
  [][(manager'.op = "shutdown" /\ manager'.calls = manager.calls + 1)
       => LET id == manager'.requests[Len(manager'.requests)].arg
          IN \/ IndexById(manager.running, id) = 0
             \/ /\ Len(manager'.running) = Len(manager.running) - 1
                /\ manager'.ev = <<"runningChanged">>]_vars

\* C29 (as the specification states it): no two entries of the running
\* cache have the same id or the same path.
C29_NoDuplicateEntries ==
  \A i, j \in DOMAIN manager.running :
     i # j => /\ manager.running[i].id # manager.running[j].id
              /\ manager.running[i].path # manager.running[j].path

\* C31 (as the specification states it): a connection loss of the managed
\* socket consumes exactly one attempt. The first event of a lost WebSocket
\* schedules the reconnect after 2^k seconds and makes the counter k + 1
\* while k < 7, and at k = 7 schedules nothing, closes and rejects the
\* connection promise; the close event that follows the error event of the
\* same WebSocket changes neither the counter nor the timer.
C31_OneAttemptPerLoss ==
  [][(managed'.op \in {"onerror", "onclose"} /\ managed.status # "closed")
       => IF managed.ws = "failed"
          THEN /\ managed'.reconnectAttempt = managed.reconnectAttempt
               /\ managed'.timeout = managed.timeout
          ELSE IF managed.reconnectAttempt < managedReconnectLimit
          THEN /\ managed'.timer
               /\ managed'.timeout = 2 ^ managed.reconnectAttempt
               /\ managed'.reconnectAttempt = managed.reconnectAttempt + 1
          ELSE /\ ~managed'.timer
               /\ managed'.status = "closed"
               /\ managed'.delegate # "pending"]_vars

\* C32: a flush of the pending queue by _onWSOpen sends the payloads from
\* the head and takes each off the queue after its send has returned: the
\* payloads sent so far followed by the queue are the same sequence before
\* and after the flush, the flush only adds to what was sent, and the queue
\* is left non-empty exactly when a send threw, with the payload of that
\* send at its head.
C32_SentBeforeShift ==
  [][managed'.op = "onopen"
       => /\ managed'.wire \o managed'.pendingMessages
                = managed.wire \o managed.pendingMessages
          /\ IsPrefix(managed.wire, managed'.wire)
          /\ (managed'.pendingMessages # <<>>) = managed'.threw]_vars

\* A flush in which the second send threw: the first payload is sent, the
\* second and the third are still queued.
C32_Witness ==
  /\ managed.op = "onopen" /\ managed.threw
  /\ Len(managed.wire) >= 1
  /\ Len(managed.pendingMessages) >= 2

\* C33 (as the specification states it): update(model), called with the
\* answer of a request while a PATCH of the session is still outstanding,
\* changes none of id, path, name and type and emits nothing.
C33_NoUpdateWhilePatching ==
  [][(session'.op \in {"patchDone", "postDone"} /\ session'.patches # <<>>)
       => /\ session'.id = session.id
          /\ session'.path = session.path
          /\ session'.name = session.name
          /\ session'.type = session.type
          /\ "changed" \notin Range(session'.ev)]_vars

\* C34 (as the specification states it): the registry of running kernels
\* holds no KernelSocket that was disposed, so that no later findKernelById
\* or connectToKernel for its id is answered from the registry.
C34_DisposedNotRegistered ==
  \A id \in KernelIds : registry.runningKernels[id] \notin registry.wsClosed

\* C37 (as the specification states it): at most one KernelSocket with an
\* open WebSocket exists for a kernel id, also when calls for the id overlap.
C37_OneSocketPerId ==
  \A id \in KernelIds :
     Cardinality({n \in DOMAIN registry.socketIds :
                    registry.socketIds[n] = id /\ n \notin registry.wsClosed}) <= 1

\* C38 (as the specification states it): when two Kernel objects share a
\* KernelSocket and one of them is disposed, the socket of the other is not
\* closed.
C38_SharedSocketKept ==
  \A i, j \in DOMAIN registry.kernels :
     (/\ registry.kernels[i].socket = registry.kernels[j].socket
      /\ registry.kernels[i].isDisposed
      /\ ~registry.kernels[j].isDisposed)
       => registry.kernels[j].socket \notin registry.wsClosed

\* C36 (as the specification states it): when the DELETE of shutdown() is
\* answered with a failure other than 404, the session has the id again
\* that it had when shutdown() was called, the id in the url of the DELETE.
C36_FailedShutdownKeepsId ==
  [][(/\ session'.op = "deleteDone"
      /\ session'.outcome \notin {"204", "404"}
      /\ session'.answered.value # "null")
       => session'.id = session'.answered.value]_vars

PollOps == {"refreshRunning", "startNewDone", "connectToDone", "shutdownListDone"}

C39_CacheFollowsChanged ==
  [][manager'.op = "setPath"
       => \A k \in DOMAIN manager.sessions :
            (/\ manager.sessions[k].watched
             /\ manager'.sessions[k].path # manager.sessions[k].path
             /\ manager.sessions[k].id # "null"
             /\ \A j \in DOMAIN manager.sessions :
                   manager.sessions[j].id = manager.sessions[k].id => j = k
             /\ IndexById(manager.running, manager.sessions[k].id) # 0)
              => /\ IndexById(manager'.running, manager.sessions[k].id) # 0
                 /\ manager'.running[IndexById(manager'.running,
                                               manager.sessions[k].id)]
                      = modelOf(manager'.sessions[k])]_vars

\* The events of a WebSocket and the reconnect timer.
ManagedEvents == {"onopen", "onclose", "onerror", "onmessage", "timer", "late"}

\* C40: close(), and dispose() of a socket not yet disposed, leave no
\* WebSocket and no reconnect timer; and from then on, until connect() is
\* called again, no step makes a WebSocket or sets a timer, and no event
\* changes the status or the pending queue.
C40_NoReconnectAfterClose ==
  [][/\ (managed'.op = "close" \/ (managed'.op = "dispose" /\ ~managed.isDisposed))
        => (managed'.ws = "null" /\ ~managed'.timer)
     /\ (/\ managed.ws = "null"
         /\ ~managed.timer
         /\ (managed.isDisposed \/ managed.status = "closed")
         /\ managed'.op # "connect")
        => /\ managed'.ws = "null"
           /\ ~managed'.timer
           /\ (managed'.op \in ManagedEvents)
                => /\ managed'.status = managed.status
                   /\ managed'.pendingMessages = managed.pendingMessages]_vars

\* A late event of the WebSocket that dispose() closed, on a socket that was
\* open and is now disposed.
C40_Witness ==
  /\ managed.op = "late" /\ managed.isDisposed
  /\ managed.status = "open" /\ managed.ws = "null"

====
